---------------------------- MODULE Spec2Model ----------------------------
(***************************************************************************)
(* cogee: registration of Cloud-Optimized GeoTIFFs held in a storage       *)
(* bucket as image assets of an Earth Engine collection                    *)
(* (src/cogee/cogee.py).                                                   *)
(*                                                                         *)
(* Strings the code takes apart (object names, asset ids) are sequences of *)
(* one-character strings, so that split, lower, endswith, basename and     *)
(* the substring test are computed as Python computes them.                *)
(***************************************************************************)
EXTENDS Integers, Sequences, FiniteSets, TLC

(***************************************************************************)
(* Bounds of the model.                                                    *)
(***************************************************************************)
\* objects in the bucket
MaxObjs == 2
\* assets already in the collection when the program starts
MaxPre == 1
\* assets another process creates while the program runs
MaxExt == 1
\* consecutive runs of register on the same bucket
MaxRuns == 2

(***************************************************************************)
(* Python string operations, on sequences of characters.                   *)
(***************************************************************************)
SetMin(S) == CHOOSE x \in S : \A y \in S : x <= y
SetMax(S) == CHOOSE x \in S : \A y \in S : x >= y

\* pat occurs in s at position i
IsAt(s, pat, i) ==
    /\ i >= 1
    /\ i + Len(pat) - 1 <= Len(s)
    /\ \A j \in 1..Len(pat) : s[i + j - 1] = pat[j]

\* str.find, 1-based, 0 when absent
Find(s, pat) ==
    LET I == {i \in 1..Len(s) : IsAt(s, pat, i)}
    IN  IF I = {} THEN 0 ELSE SetMin(I)

\* s.split(pat)[0]
SplitFirst(s, pat) ==
    LET i == Find(s, pat)
    IN  IF i = 0 THEN s ELSE SubSeq(s, 1, i - 1)

\* s.split(c)[-1], c one character
SplitLast(s, c) ==
    LET I == {i \in 1..Len(s) : s[i] = c}
    IN  IF I = {} THEN s ELSE SubSeq(s, SetMax(I) + 1, Len(s))

LowerChar(c) ==
    CASE c = "T" -> "t"
      [] c = "I" -> "i"
      [] c = "F" -> "f"
      [] OTHER   -> c

\* s.lower()
Lower(s) == [i \in 1..Len(s) |-> LowerChar(s[i])]

\* s.endswith(suf)
EndsWith(s, suf) ==
    /\ Len(s) >= Len(suf)
    /\ SubSeq(s, Len(s) - Len(suf) + 1, Len(s)) = suf

\* s.startswith(pre)
StartsWith(s, pre) ==
    /\ Len(s) >= Len(pre)
    /\ SubSeq(s, 1, Len(pre)) = pre

\* sub in s
Contains(s, sub) == Len(sub) = 0 \/ Find(s, sub) # 0

\* os.path.basename
Basename(p) == SplitLast(p, "/")

RECURSIVE SeqToSet(_)
\* set(list)
SeqToSet(s) == IF s = <<>> THEN {} ELSE {Head(s)} \cup SeqToSet(Tail(s))

RECURSIVE SelectSeqBy(_, _)
\* the elements of s that are in S, in the order of s
SelectSeqBy(s, S) ==
    IF s = <<>> THEN <<>>
    ELSE IF Head(s) \in S THEN <<Head(s)>> \o SelectSeqBy(Tail(s), S)
         ELSE SelectSeqBy(Tail(s), S)

DotTif == <<".", "t", "i", "f">>
Dot == <<".">>

(***************************************************************************)
(* The bucket: object names, in the order list_blobs returns them          *)
(* (by name).                                                              *)
(***************************************************************************)
BlobUniverse ==
    << <<"a", ".", "T", "I", "F">>,
       <<"a", ".", "b", ".", "t", "i", "f">>,
       <<"a", ".", "t", "i", "f">>,
       <<"a", "b", ".", "t", "i", "f">>,
       <<"b", ".", "t", "i", "f">>,
       <<"d", "/", "a", ".", "t", "i", "f">>,
       <<"n", ".", "t", "x", "t">> >>

\* the buckets considered: the sub-listings of BlobUniverse of at most MaxObjs objects
Buckets ==
    {SelectSeqBy(BlobUniverse, S) :
        S \in {T \in SUBSET SeqToSet(BlobUniverse) : Cardinality(T) <= MaxObjs}}

\* prefix=None
NoPrefix == <<"None">>
Prefixes == {NoPrefix, <<"d">>}

\* the collection registered into
CollectionPath == <<"p", "/", "c">>
\* asset names other processes may use in the collection
AssetNames == {<<"a">>, <<"a", "b">>, <<"b">>}
AssetPath(coll, n) == coll \o <<"/">> \o n

(***************************************************************************)
(* list_tif: the objects under the prefix whose name ends in .tif          *)
(* (compared in lower case), the first limit of them when a limit is given.*)
(***************************************************************************)
\* limit=None
NoLimit == -1
Limits == {NoLimit}

Take(s, n) == IF Len(s) <= n THEN s ELSE SubSeq(s, 1, n)

list_tif(blobs, pfx, limit) ==
    LET search_prefix == IF pfx = NoPrefix THEN <<>> ELSE pfx
        under   == SelectSeqBy(blobs,
                      {n \in SeqToSet(blobs) : StartsWith(n, search_prefix)})
        fetched == IF limit = NoLimit THEN under ELSE Take(under, limit * 10)
        tifs    == SelectSeqBy(fetched,
                      {n \in SeqToSet(fetched) : EndsWith(Lower(n), DotTif)})
    IN  IF limit = NoLimit THEN tifs ELSE Take(tifs, limit)

(***************************************************************************)
(* register: the keys compared by the differ.                              *)
(***************************************************************************)
\* file.get("name").split("/")[-1].split(".tif")[0]
GcsKey(name) == SplitFirst(SplitLast(name, "/"), DotTif)

\* gcs_asset_list
GcsAssetList(ptif) == [i \in 1..Len(ptif) |-> GcsKey(ptif[i])]

\* gee_asset_list, from the ids ee.data.getList returns
GeeAssetList(ids) == {Basename(id) : id \in ids}

\* the difference taken against the asset ids instead of their last segment
RemainingItemsById(ptif, ids) == SeqToSet(GcsAssetList(ptif)) \ ids

\* remaining_items = set(gcs_asset_list) - set(gee_asset_list)
RemainingItems(ptif, ids) == SeqToSet(GcsAssetList(ptif)) \ GeeAssetList(ids)

\* get_property(data_list, target_name): the items whose name contains the target
get_property(data_list, target_name) ==
    SelectSeqBy(data_list,
        {n \in SeqToSet(data_list) : Contains(Lower(n), Lower(target_name))})

\* asset_id.get('name').split('/')[-1].split('.')[0]
AssetName(name) == SplitFirst(SplitLast(name, "/"), Dot)

\* asset_id_img
AssetIdImg(coll, name) == AssetPath(coll, AssetName(name))

(***************************************************************************)
(* validate_cog as the registration task uses it.  What the read of the    *)
(* file does is an input: it opens and reads (the band count is detected), *)
(* it cannot be opened (RasterioIOError: properties stay empty), or it     *)
(* opens and a later read fails (properties were already filled in).  All  *)
(* three are caught inside validate_cog, which returns its result record.  *)
(***************************************************************************)
\* detected band counts
MaxBands == 2
Reads ==
    [kind : {"ok", "read_error"}, count : 1..MaxBands]
        \cup {[kind |-> "cannot_open", count |-> 0]}

validate_cog(read) ==
    IF read.kind = "cannot_open"
    THEN [raised |-> FALSE, has_count |-> FALSE, count |-> 0,
          errors |-> TRUE]
    ELSE [raised |-> FALSE, has_count |-> TRUE, count |-> read.count,
          errors |-> read.kind # "ok"]

\* the band count without its default of 1
BandCountNoDefault(vr) == IF vr.raised \/ ~vr.has_count THEN 0 ELSE vr.count

\* validation_result.get('properties', {}).get('count', 1), 1 when the call raised
BandCount(vr) ==
    IF vr.raised THEN 1
    ELSE IF vr.has_count THEN vr.count ELSE 1

Digit(n) == <<"0", "1", "2", "3", "4", "5", "6", "7", "8", "9">>[n + 1]
\* f'b{idx+1}'
DefaultBandId(idx) == <<"b", Digit(idx + 1)>>

BandDescriptor(id, idx) ==
    [id |-> id, tilesetId |-> "0", tilesetBandIndex |-> idx]

\* the caller's names used for the bands they reach, default names for the rest
BuildBandsPartial(names, band_count) ==
    [i \in 1..band_count |->
        BandDescriptor(IF i <= Len(names) THEN names[i] ELSE DefaultBandId(i - 1),
                       i - 1)]

\* the band definitions of the manifest
BuildBands(names, band_count) ==
    IF names # <<>> /\ Len(names) = band_count
    THEN [i \in 1..Len(names) |-> BandDescriptor(names[i], i - 1)]
    ELSE [i \in 1..band_count |-> BandDescriptor(DefaultBandId(i - 1), i - 1)]

Red == <<"r", "e", "d">>
Nir == <<"n", "i", "r">>
\* band_names: None, or the names given with --bands
BandNameChoices == {<<>>, <<Red>>, <<Red, Nir>>}

(***************************************************************************)
(* What the remote services answer.                                        *)
(***************************************************************************)
\* texts of remote errors: response.text, str(error)
ErrTexts == {"quota exceeded", "permission denied"}

\* session.post (manifest mode): status 200, another status with its text,
\* or an exception of the transport (requests, google.auth), which is no EEException
PostAnswers ==
    {[how |-> "status", ok |-> TRUE, text |-> ""]}
        \cup [how : {"status", "raise"}, ok : {FALSE}, text : ErrTexts]

\* ee.data.createAsset (legacy mode): an asset with its id, an answer
\* without id, or an exception
CreateAnswers ==
    {[how |-> "id", ok |-> TRUE, text |-> ""],
     [how |-> "no_id", ok |-> FALSE, text |-> ""]}
        \cup [how : {"raise"}, ok : {FALSE}, text : ErrTexts]

\* ee.data.getInfo: the asset or None, or an EEException
InfoAnswers ==
    {[how |-> "answer", text |-> ""]} \cup [how : {"raise"}, text : ErrTexts]

NoResult == [kind |-> "", asset |-> <<>>, reason |-> ""]
Outcome(kind, asset, reason) == [kind |-> kind, asset |-> asset, reason |-> reason]

NoRead == [kind |-> "none", count |-> 0]

VARIABLES
    bucket,          \* the objects of the bucket, by name
    prefix,          \* register's prefix
    limit,           \* register's limit
    band_names,      \* register's band_names
    use_manifest,    \* register's use_manifest
    coll_exists,     \* the collection is in the catalog
    catalog,         \* ids of the assets of the collection, at the service
    rpc,             \* where register is
    run,             \* which run of register this is
    assets_list,     \* ids ee.data.getList returned to this run
    ptif,            \* list_tif's result
    remaining_items, \* the difference set
    tasks,           \* remaining_items -> the future of the item's task
    progress,        \* pbar.update calls of this run
    nExt,            \* assets created by other processes so far
    extMut,          \* another process changed the catalog after the first listing
    faults1,         \* a call of the first run failed, or the run was interrupted
    pool,            \* the executor of a batch, its tasks counted
    coll,            \* what lines 725-733 of this run did about the collection
    vbatch           \* a call of validate_cog_batch

inputs == <<bucket, prefix, limit, band_names, use_manifest>>
remote == <<coll_exists, catalog>>
batch == <<assets_list, ptif, remaining_items>>
hist == <<nExt, extMut, faults1>>
vars == <<inputs, remote, rpc, run, batch, tasks, progress, hist, pool, coll, vbatch>>

\* no executor under observation
NoPool == [fn |-> "none", arg |-> 0, cpu_count |-> 0, py38 |-> FALSE,
           max_workers |-> 0, queued |-> 0, inflight |-> 0, finished |-> 0]

\* register has not reached line 725, or is past line 733
NoColl == [step |-> "none", existed |-> FALSE, creates |-> 0, type |-> ""]

\* no call of validate_cog_batch under observation
NoVBatch == [pc |-> "none", max_workers |-> 0, tif_files |-> <<>>,
             futures |-> <<>>, results |-> <<>>, valid_count |-> 0,
             invalid_count |-> 0, pbar |-> 0]

NewTask(obj) ==
    [obj |-> obj, pc |-> "queued", asset |-> <<>>, uri |-> <<>>, read |-> NoRead,
     bands |-> <<>>, result |-> NoResult, checks |-> 0, posts |-> 0,
     existedAtCheck |-> FALSE, answer |-> "", collected |-> FALSE]

Init ==
    /\ bucket \in Buckets
    /\ prefix \in Prefixes
    /\ limit \in Limits
    /\ band_names \in BandNameChoices
    /\ use_manifest \in BOOLEAN
    /\ coll_exists \in BOOLEAN
    /\ catalog \in {C \in SUBSET {AssetPath(CollectionPath, n) : n \in AssetNames} :
                       Cardinality(C) <= MaxPre /\ (~coll_exists => C = {})}
    /\ rpc = "start"
    /\ run = 1
    /\ assets_list = {}
    /\ ptif = <<>>
    /\ remaining_items = {}
    /\ tasks = <<>>
    /\ progress = 0
    /\ nExt = 0
    /\ extMut = FALSE
    /\ faults1 = FALSE
    /\ pool = NoPool
    /\ coll = NoColl
    /\ vbatch = NoVBatch

(***************************************************************************)
(* register, lines 725-733: the collection is looked up; when the lookup   *)
(* raises, whatever the exception, createAsset is called with the type     *)
(* ASSET_TYPE_IMAGE_COLL_CLOUD, and when that raises, again with the type  *)
(* ASSET_TYPE_IMAGE_COLL; an exception of the second call leaves register. *)
(***************************************************************************)
ASSET_TYPE_IMAGE_COLL_CLOUD == "IMAGE_COLLECTION"
ASSET_TYPE_IMAGE_COLL == "ImageCollection"

\* ee.data.getAsset(collection_path): the asset, or an exception, which
\* the service also gives for a collection that is there (quota, transport)
GetAssetAnswers(exists) == IF exists THEN {"found", "raise"} ELSE {"raise"}

\* ee.data.createAsset({"type": ...}, collection_path): the collection is
\* made, or an exception; no asset is made over one that is there
CreateCollectionAnswers(exists) == IF exists THEN {"raise"} ELSE {"made", "raise"}

EnsureCollection ==
    /\ rpc = "start"
    /\ \E got \in GetAssetAnswers(coll_exists),
          c1 \in CreateCollectionAnswers(coll_exists),
          c2 \in CreateCollectionAnswers(coll_exists) :
          \/ /\ got = "found"
             /\ coll' = [step |-> "found", existed |-> coll_exists, creates |-> 0, type |-> ""]
             /\ rpc' = "listing"
             /\ UNCHANGED <<coll_exists, faults1>>
          \/ /\ got = "raise" /\ c1 = "made"
             /\ coll' = [step |-> "created", existed |-> coll_exists, creates |-> 1,
                         type |-> ASSET_TYPE_IMAGE_COLL_CLOUD]
             /\ coll_exists' = TRUE
             /\ rpc' = "listing"
             /\ UNCHANGED faults1
          \/ /\ got = "raise" /\ c1 = "raise" /\ c2 = "made"
             /\ coll' = [step |-> "created", existed |-> coll_exists, creates |-> 2,
                         type |-> ASSET_TYPE_IMAGE_COLL]
             /\ coll_exists' = TRUE
             /\ rpc' = "listing"
             /\ UNCHANGED faults1
          \/ /\ got = "raise" /\ c1 = "raise" /\ c2 = "raise"
             /\ coll' = [step |-> "failed", existed |-> coll_exists,
                         creates |-> 2, type |-> ""]
             /\ rpc' = "raised"
             /\ faults1' = (faults1 \/ run = 1)
             /\ UNCHANGED coll_exists
    /\ UNCHANGED <<inputs, catalog, run, batch, tasks, progress, nExt, extMut, pool, vbatch>>

(***************************************************************************)
(* register, lines 735-761: the catalog and the bucket are listed, the     *)
(* difference is taken and one task per remaining item is submitted to the *)
(* executor, with the first object get_property finds for the item.  A     *)
(* KeyboardInterrupt that reaches the main thread in the loop of line 747  *)
(* ends the loop: the items of `submitted` have their task, the others     *)
(* never get one, and the with block of the executor is left.              *)
(***************************************************************************)
ListAndSubmit ==
    /\ rpc = "listing"
    /\ assets_list' = catalog
    /\ ptif' = list_tif(bucket, prefix, limit)
    /\ remaining_items' = RemainingItems(ptif', assets_list')
    /\ \E submitted \in SUBSET remaining_items' :
          /\ tasks' = [k \in submitted |-> NewTask(get_property(ptif', k)[1])]
          /\ rpc' = IF submitted # remaining_items' THEN "cancelling"
                    ELSE IF remaining_items' = {} THEN "done" ELSE "collecting"
          /\ faults1' = (faults1 \/ (run = 1 /\ submitted # remaining_items'))
    /\ progress' = 0
    /\ coll' = NoColl
    /\ UNCHANGED <<inputs, remote, run, nExt, extMut, pool, vbatch>>

(***************************************************************************)
(* The task of one item: register_single_asset_manifest or                 *)
(* register_single_asset_legacy, run by a worker of the executor.  The     *)
(* executor of register is ThreadPoolExecutor() with its default size,     *)
(* at least 5 workers, so that no task of a batch of this size waits for   *)
(* a worker.  Tasks that are queued when register leaves the with block    *)
(* on an exception still run: shutdown(wait=True) cancels nothing.  That   *)
(* holds for a KeyboardInterrupt too, which Python raises in the main      *)
(* thread only: the workers never see it, and the handlers of lines        *)
(* 652-653 and 694-695 are never entered on an interrupt.                  *)
(***************************************************************************)
Running == rpc \in {"collecting", "draining", "cancelling"}

\* lines 575-578, 669-672: the source URI of the payload
Slash == <<"/">>
GsScheme == <<"g", "s", ":", "/", "/">>
BucketName == <<"b", "k">>
Uri(bucket_name, pfx, name) ==
    IF pfx = NoPrefix THEN GsScheme \o bucket_name \o Slash \o name
    ELSE GsScheme \o bucket_name \o Slash \o pfx \o Slash \o name

\* line 304: the address validate_cog opens
StorageHost ==
    <<"h", "t", "t", "p", "s", ":", "/", "/", "storage.googleapis.com", "/">>
CogUrl(bucket_name, blob_name) == StorageHost \o bucket_name \o Slash \o blob_name

\* lines 570-634 (manifest), 664-680 (legacy): the names and the payload
TaskBuild(k) ==
    /\ Running
    /\ tasks[k].pc = "queued"
    /\ \E read \in (IF use_manifest THEN Reads ELSE {NoRead}) :
          tasks' = [tasks EXCEPT ![k] =
              [@ EXCEPT !.pc = "built",
                        !.asset = AssetIdImg(CollectionPath, tasks[k].obj),
                        !.uri = Uri(BucketName, prefix, tasks[k].obj),
                        !.read = read,
                        !.bands = IF use_manifest
                                  THEN BuildBands(band_names,
                                                  BandCount(validate_cog(read)))
                                  ELSE <<>>]]
    /\ UNCHANGED <<inputs, remote, rpc, run, batch, progress, hist, pool, coll, vbatch>>

\* the task returns or raises: its future is done and holds the result; the
\* payload and what was read of the file are locals of the call, gone with it
Return(t, result) ==
    [t EXCEPT !.pc = "done", !.result = result, !.read = NoRead, !.bands = <<>>]

\* what the task returns when ee.data.getInfo raises EEException
CheckFailed(asset, text) ==
    IF use_manifest THEN Outcome("Failed", asset, text)
    ELSE Outcome("Failed", asset, "")

\* no existence test: the asset is never found
ExistsNever(asset) == FALSE

\* the existence test made on the listing register took when it started
ExistsInSnapshot(asset) == asset \in assets_list

\* the existence test of the task: is the asset in the catalog now
Exists(asset) == asset \in catalog

\* lines 638-639 (manifest), 683-684 (legacy): ee.data.getInfo(asset_id_img)
TaskCheck(k) ==
    /\ Running
    /\ tasks[k].pc = "built"
    /\ \E info \in InfoAnswers :
          LET t == tasks[k]
              c == [t EXCEPT !.checks = @ + 1,
                             !.existedAtCheck = t.asset \in catalog]
          IN  /\ tasks' = [tasks EXCEPT ![k] =
                    IF info.how = "raise"
                    THEN Return([c EXCEPT !.answer = "check raised"],
                                CheckFailed(t.asset, info.text))
                    ELSE IF Exists(t.asset)
                    THEN Return(c, Outcome("AlreadyExists", t.asset, ""))
                    ELSE [c EXCEPT !.pc = "checked"]]
              /\ faults1' = (faults1 \/ (run = 1 /\ info.how = "raise"))
    /\ UNCHANGED <<inputs, remote, rpc, run, batch, progress, nExt, extMut, pool, coll, vbatch>>

\* lines 643-651: what the manifest task makes of session.post
PostResult(asset, ans) ==
    IF ans.how = "raise" THEN Outcome("Exception", asset, ans.text)
    ELSE IF ans.ok THEN Outcome("Registered", asset, "")
    ELSE Outcome("Failed", asset, ans.text)

\* lines 686-691: what the legacy task makes of ee.data.createAsset
CreateResult(asset, ans) ==
    IF ans.how = "raise" THEN Outcome("Failed", asset, ans.text)
    ELSE IF ans.how = "id" THEN Outcome("Registered", asset, "")
    ELSE Outcome("None", asset, "")

\* the text the service gave for a failed submission, "ok" for a success
AnswerText(ans) == IF ans.ok THEN "ok" ELSE IF ans.text = "" THEN "no id" ELSE ans.text

\* the create/import call, made again when it fails
TaskSubmitRetry(k) ==
    /\ Running
    /\ tasks[k].pc = "checked"
    /\ \E ans \in (IF use_manifest THEN PostAnswers ELSE CreateAnswers) :
          LET t == tasks[k]
              sent == [t EXCEPT !.posts = @ + 1, !.answer = AnswerText(ans)]
          IN  /\ tasks' = [tasks EXCEPT ![k] =
                    IF ~ans.ok /\ t.posts = 0 THEN sent
                    ELSE Return(sent,
                                IF use_manifest THEN PostResult(t.asset, ans)
                                ELSE CreateResult(t.asset, ans))]
              /\ catalog' = IF ans.ok THEN catalog \cup {t.asset} ELSE catalog
              /\ faults1' = (faults1 \/ (run = 1 /\ ~ans.ok))
    /\ UNCHANGED <<inputs, coll_exists, rpc, run, batch, progress, nExt, extMut, pool, coll, vbatch>>

\* lines 642-648 (manifest), 686-691 (legacy): the create/import call
TaskSubmit(k) ==
    /\ Running
    /\ tasks[k].pc = "checked"
    /\ \E ans \in (IF use_manifest THEN PostAnswers ELSE CreateAnswers) :
          LET t == tasks[k]
          IN  /\ tasks' = [tasks EXCEPT ![k] =
                    Return([t EXCEPT !.posts = @ + 1,
                                     !.answer = AnswerText(ans)],
                           IF use_manifest THEN PostResult(t.asset, ans)
                           ELSE CreateResult(t.asset, ans))]
              /\ catalog' = IF ans.ok THEN catalog \cup {t.asset} ELSE catalog
              /\ faults1' = (faults1 \/ (run = 1 /\ ~ans.ok))
    /\ UNCHANGED <<inputs, coll_exists, rpc, run, batch, progress, nExt, extMut, pool, coll, vbatch>>

(***************************************************************************)
(* register, lines 763-768: as_completed hands over a finished future;     *)
(* future.result() returns what the task returned or raises what the task  *)
(* raised, which leaves both with blocks.                                  *)
(***************************************************************************)
AllCollected(ts) == \A j \in DOMAIN ts : ts[j].collected

Collect(k) ==
    /\ rpc = "collecting"
    /\ tasks[k].pc = "done"
    /\ ~tasks[k].collected
    /\ IF tasks[k].result.kind = "Exception"
       THEN /\ rpc' = "draining"
            /\ UNCHANGED <<tasks, progress>>
       ELSE /\ tasks' = [tasks EXCEPT ![k].collected = TRUE]
            /\ progress' = progress + 1
            /\ rpc' = IF AllCollected(tasks') THEN "done" ELSE "collecting"
    /\ UNCHANGED <<inputs, remote, run, batch, hist, pool, coll, vbatch>>

\* ThreadPoolExecutor.__exit__: the tasks still running or queued finish,
\* then the exception leaves register: the one future.result() raised, or
\* the KeyboardInterrupt, which nothing up to the interpreter catches
Drain ==
    /\ rpc \in {"draining", "cancelling"}
    /\ \A j \in DOMAIN tasks : tasks[j].pc = "done"
    /\ rpc' = IF rpc = "draining" THEN "raised" ELSE "interrupted"
    /\ UNCHANGED <<inputs, remote, run, batch, tasks, progress, hist, pool, coll, vbatch>>

\* the operator's interrupt: KeyboardInterrupt is raised in the main thread,
\* where register is; inside the with block of the executor (lines 745-768)
\* it first runs the executor's __exit__
Interrupt ==
    /\ rpc \in {"start", "listing", "collecting"}
    /\ rpc' = IF rpc = "collecting" THEN "cancelling" ELSE "interrupted"
    /\ faults1' = (faults1 \/ run = 1)
    /\ UNCHANGED <<inputs, remote, run, batch, tasks, progress, nExt, extMut, pool, coll, vbatch>>

\* register is run again on the same bucket
RunAgain ==
    /\ rpc \in {"done", "raised", "interrupted"}
    /\ run < MaxRuns
    /\ run' = run + 1
    /\ rpc' = "start"
    /\ assets_list' = {}
    /\ ptif' = <<>>
    /\ remaining_items' = {}
    /\ tasks' = <<>>
    /\ progress' = 0
    /\ coll' = NoColl
    /\ UNCHANGED <<inputs, remote, hist, pool, vbatch>>

\* another process creates an asset in the collection
ExternalCreate ==
    /\ coll_exists
    /\ nExt < MaxExt
    /\ \E n \in AssetNames :
          /\ AssetPath(CollectionPath, n) \notin catalog
          /\ catalog' = catalog \cup {AssetPath(CollectionPath, n)}
    /\ nExt' = nExt + 1
    /\ extMut' = (extMut \/ rpc \notin {"start", "listing"} \/ run > 1)
    /\ UNCHANGED <<inputs, coll_exists, rpc, run, batch, tasks, progress, faults1, pool, coll, vbatch>>

Next ==
    \/ EnsureCollection
    \/ ListAndSubmit
    \/ \E k \in DOMAIN tasks : TaskBuild(k)
    \/ \E k \in DOMAIN tasks : TaskCheck(k)
    \/ \E k \in DOMAIN tasks : TaskSubmit(k)
    \/ \E k \in DOMAIN tasks : Collect(k)
    \/ Drain
    \/ Interrupt
    \/ RunAgain
    \/ ExternalCreate

Spec == Init /\ [][Next]_vars

(***************************************************************************)
(* register up to the difference set: the collection, the two listings and *)
(* the difference, for every bucket and catalog of Init; other processes   *)
(* may add assets before the catalog is listed.                            *)
(***************************************************************************)
NextList ==
    \/ EnsureCollection
    \/ ListAndSubmit
    \/ ExternalCreate

SpecList == Init /\ [][NextList]_vars

(***************************************************************************)
(* Runs of register on a bucket of one raster, with every list of band     *)
(* names of up to MaxNames names the caller may give.                      *)
(***************************************************************************)
\* names given with --bands
MaxNames == 2
BandIds == {Red, Nir, <<"b", "1">>, <<"b", "2">>}
RECURSIVE SeqsUpTo(_, _)
SeqsUpTo(S, n) ==
    IF n = 0 THEN {<<>>}
    ELSE LET shorter == SeqsUpTo(S, n - 1)
         IN  shorter \cup {Append(q, x) : q \in shorter, x \in S}

InitTask ==
    /\ bucket \in {b \in Buckets : Len(b) = 1 /\ EndsWith(Lower(b[1]), DotTif)}
    /\ prefix \in Prefixes
    /\ limit \in Limits
    /\ band_names \in SeqsUpTo(BandIds, MaxNames)
    /\ use_manifest \in BOOLEAN
    /\ coll_exists \in BOOLEAN
    /\ catalog \in {C \in SUBSET {AssetPath(CollectionPath, n) : n \in AssetNames} :
                       Cardinality(C) <= MaxPre /\ (~coll_exists => C = {})}
    /\ rpc = "start"
    /\ run = 1
    /\ assets_list = {}
    /\ ptif = <<>>
    /\ remaining_items = {}
    /\ tasks = <<>>
    /\ progress = 0
    /\ nExt = 0
    /\ extMut = FALSE
    /\ faults1 = FALSE
    /\ pool = NoPool
    /\ coll = NoColl
    /\ vbatch = NoVBatch

SpecTask == InitTask /\ [][Next]_vars

(***************************************************************************)
(* The executors.  validate_cog_batch builds                               *)
(* ThreadPoolExecutor(max_workers=max_workers), max_workers being its      *)
(* parameter (default 10, --workers on the command line); register builds  *)
(* ThreadPoolExecutor() and has no such parameter.  An executor built      *)
(* without max_workers sizes itself from the machine: min(32, cpu + 4)     *)
(* from Python 3.8 on, 5 * cpu before (setup.py lists 3.6 to 3.9).  Every  *)
(* task is submitted before the first result is awaited; a worker takes a  *)
(* queued task when fewer than max_workers tasks are running.              *)
(***************************************************************************)
\* files or items of a batch
MaxFiles == 11
\* values of --workers tried
MaxWorkersArg == 3
\* max_workers not given by the caller
NoArg == 0
\* max_workers=10 in validate_cog_batch's signature
DefaultValidateWorkers == 10
CpuCounts == {1, 2, 8}

Min2(a, b) == IF a <= b THEN a ELSE b

\* ThreadPoolExecutor(): max_workers=None
DefaultExecutorWorkers(cpu, py38) ==
    IF py38 THEN Min2(32, cpu + 4) ELSE cpu * 5

\* the executor built without max_workers in both batch functions
ExecutorSizeDefault(fn, arg, cpu, py38) == DefaultExecutorWorkers(cpu, py38)

\* the size of the executor the batch function builds
ExecutorSize(fn, arg, cpu, py38) ==
    IF fn = "validate_cog_batch"
    THEN (IF arg = NoArg THEN DefaultValidateWorkers ELSE arg)
    ELSE DefaultExecutorWorkers(cpu, py38)

InitPool ==
    /\ bucket = <<>>
    /\ prefix = NoPrefix
    /\ limit = NoLimit
    /\ band_names = <<>>
    /\ use_manifest = TRUE
    /\ coll_exists = FALSE
    /\ catalog = {}
    /\ rpc = "none"
    /\ run = 1
    /\ assets_list = {}
    /\ ptif = <<>>
    /\ remaining_items = {}
    /\ tasks = <<>>
    /\ progress = 0
    /\ nExt = 0
    /\ extMut = FALSE
    /\ faults1 = FALSE
    /\ coll = NoColl
    /\ vbatch = NoVBatch
    /\ \E fn \in {"register", "validate_cog_batch"}, cpu \in CpuCounts,
          py38 \in BOOLEAN, n \in 1..MaxFiles :
          \E arg \in (IF fn = "register" THEN {NoArg}
                      ELSE {NoArg} \cup 1..MaxWorkersArg) :
             pool = [fn |-> fn, arg |-> arg, cpu_count |-> cpu, py38 |-> py38,
                     max_workers |-> ExecutorSize(fn, arg, cpu, py38),
                     queued |-> n, inflight |-> 0, finished |-> 0]

\* a worker of the executor takes a queued task
PoolStart ==
    /\ pool.queued > 0
    /\ pool.inflight < pool.max_workers
    /\ pool' = [pool EXCEPT !.queued = @ - 1, !.inflight = @ + 1]
    /\ UNCHANGED <<inputs, remote, rpc, run, batch, tasks, progress, hist, coll, vbatch>>

\* a running task returns
PoolFinish ==
    /\ pool.inflight > 0
    /\ pool' = [pool EXCEPT !.inflight = @ - 1, !.finished = @ + 1]
    /\ UNCHANGED <<inputs, remote, rpc, run, batch, tasks, progress, hist, coll, vbatch>>

NextPool == PoolStart \/ PoolFinish

SpecPool == InitPool /\ [][NextPool]_vars

(***************************************************************************)
(* validate_cog_batch, lines 459-525.  The files list_tif returns are each *)
(* submitted to ThreadPoolExecutor(max_workers=max_workers) as a call of   *)
(* validate_cog_single_threaded; the main thread takes the futures as they *)
(* complete and tallies them.  The workers take the submitted calls in the *)
(* order of submission.  Writing output_file comes after the tally and is  *)
(* left out.                                                               *)
(***************************************************************************)
\* lines 440-456: validate_cog_single_threaded returns the name it was given
\* and a result, also when validate_cog raises; `how` is what the file is
ValidateOutcomes == {"cog", "not_cog", "cannot_open", "raised"}
validate_cog_single_threaded(blob_name, how) ==
    <<blob_name, [is_valid_cog |-> how = "cog"]>>

NewFuture == [pc |-> "queued", result |-> <<>>]

InitValidate ==
    /\ bucket \in Buckets
    /\ prefix \in Prefixes
    /\ limit \in Limits
    /\ band_names = <<>>
    /\ use_manifest = TRUE
    /\ coll_exists = FALSE
    /\ catalog = {}
    /\ rpc = "none"
    /\ run = 1
    /\ assets_list = {}
    /\ ptif = <<>>
    /\ remaining_items = {}
    /\ tasks = <<>>
    /\ progress = 0
    /\ nExt = 0
    /\ extMut = FALSE
    /\ faults1 = FALSE
    /\ pool = NoPool
    /\ coll = NoColl
    /\ \E w \in (1..MaxWorkersArg) \cup {DefaultValidateWorkers} :
          vbatch = [NoVBatch EXCEPT !.pc = "start", !.max_workers = w]

\* lines 470-487: the listing; nothing to validate, or every file submitted
ValidateSubmit ==
    /\ vbatch.pc = "start"
    /\ LET tif_files == list_tif(bucket, prefix, limit)
       IN  vbatch' = IF tif_files = <<>>
                     THEN [vbatch EXCEPT !.pc = "returned None"]
                     ELSE [vbatch EXCEPT !.pc = "collecting",
                                         !.tif_files = tif_files,
                                         !.futures = [i \in 1..Len(tif_files) |-> NewFuture]]
    /\ UNCHANGED <<inputs, remote, rpc, run, batch, tasks, progress, hist, pool, coll>>

FuturesAt(pc) == {i \in DOMAIN vbatch.futures : vbatch.futures[i].pc = pc}

\* a free worker takes the call submitted first among those waiting
ValidateStart ==
    /\ vbatch.pc = "collecting"
    /\ FuturesAt("queued") # {}
    /\ Cardinality(FuturesAt("running")) < vbatch.max_workers
    /\ vbatch' = [vbatch EXCEPT !.futures[SetMin(FuturesAt("queued"))].pc = "running"]
    /\ UNCHANGED <<inputs, remote, rpc, run, batch, tasks, progress, hist, pool, coll>>

\* a running call returns its pair
ValidateFinish(i) ==
    /\ vbatch.pc = "collecting"
    /\ vbatch.futures[i].pc = "running"
    /\ \E how \in ValidateOutcomes :
          vbatch' = [vbatch EXCEPT !.futures[i] =
              [pc |-> "done",
               result |-> validate_cog_single_threaded(vbatch.tif_files[i], how)]]
    /\ UNCHANGED <<inputs, remote, rpc, run, batch, tasks, progress, hist, pool, coll>>

\* the tally that keeps a record of the valid files only
TallyValidOnly(v, pair) ==
    [v EXCEPT !.valid_count = IF pair[2].is_valid_cog THEN @ + 1 ELSE @,
              !.invalid_count = IF pair[2].is_valid_cog THEN @ ELSE @ + 1,
              !.results = IF pair[2].is_valid_cog
                          THEN Append(@, [file |-> pair[1],
                                          is_valid_cog |-> pair[2].is_valid_cog])
                          ELSE @,
              !.pbar = @ + 1]

\* lines 493-511: the body of the as_completed loop
Tally(v, pair) ==
    [v EXCEPT !.valid_count = IF pair[2].is_valid_cog THEN @ + 1 ELSE @,
              !.invalid_count = IF pair[2].is_valid_cog THEN @ ELSE @ + 1,
              !.results = Append(@, [file |-> pair[1],
                                     is_valid_cog |-> pair[2].is_valid_cog]),
              !.pbar = @ + 1]

\* lines 490-511: as_completed hands over a future that is done; after the
\* last one validate_cog_batch returns results
ValidateCollect(i) ==
    /\ vbatch.pc = "collecting"
    /\ vbatch.futures[i].pc = "done"
    /\ LET v == Tally([vbatch EXCEPT !.futures[i].pc = "collected"],
                      vbatch.futures[i].result)
       IN  vbatch' = IF \A j \in DOMAIN v.futures : v.futures[j].pc = "collected"
                     THEN [v EXCEPT !.pc = "returned results"]
                     ELSE v
    /\ UNCHANGED <<inputs, remote, rpc, run, batch, tasks, progress, hist, pool, coll>>

NextValidate ==
    \/ ValidateSubmit
    \/ ValidateStart
    \/ \E i \in DOMAIN vbatch.futures : ValidateFinish(i)
    \/ \E i \in DOMAIN vbatch.futures : ValidateCollect(i)

SpecValidate == InitValidate /\ [][NextValidate]_vars

(***************************************************************************)
(* Properties of a registration batch (Spec).                              *)
(***************************************************************************)
Tasks == DOMAIN tasks
Finished == rpc \in {"done", "raised"}
Outcomes == {"Registered", "AlreadyExists", "Failed"}
\* the task failed: a status other than success, an exception of the
\* catalog client, an exception of the transport
TaskFailed(t) == t.pc = "done" /\ t.result.kind \in {"Failed", "Exception"}
CountOf(kind) ==
    Cardinality({k \in Tasks : tasks[k].collected /\ tasks[k].result.kind = kind})

\* C1: when register has ended, whichever way a task failed, the outcome of
\* every other item of the difference set has been collected (the batch ran
\* to exhaustion).
C1_FailureLeavesSiblingsCollected ==
    Finished =>
        \A f \in Tasks, k \in Tasks :
            (f # k /\ TaskFailed(tasks[f])) => tasks[k].collected

\* C2: when register has ended, every item of the difference set has exactly
\* one collected outcome, which is Registered, AlreadyExists or Failed, and
\* the three counts add up to the size of the difference set.
C2_OneOutcomePerItem ==
    Finished =>
        /\ \A k \in remaining_items :
              /\ k \in Tasks
              /\ tasks[k].collected
              /\ tasks[k].result.kind \in Outcomes
        /\ CountOf("Registered") + CountOf("AlreadyExists") + CountOf("Failed")
              = Cardinality(remaining_items)

KeysSeen ==
    {GcsKey(BlobUniverse[i]) : i \in 1..Len(BlobUniverse)} \cup AssetNames
SourceKeys == {GcsKey(ptif[i]) : i \in 1..Len(ptif)}
CatalogKeys == {Basename(id) : id \in assets_list}
Listed == rpc \in {"collecting", "draining", "done", "raised"}

C6_ExistingAtCheckIsSkipped ==
    \A k \in Tasks :
        tasks[k].existedAtCheck =>
            /\ tasks[k].posts = 0
            /\ tasks[k].pc = "done"
            /\ tasks[k].answer # "check raised"
                  => tasks[k].result = Outcome("AlreadyExists", tasks[k].asset, "")

\* C6 witness: the asset was not in the listing register took, another
\* process created it afterwards, and the task returned AlreadyExists.
C6_Witness ==
    \E k \in Tasks :
        /\ tasks[k].existedAtCheck
        /\ tasks[k].asset \notin assets_list
        /\ extMut
        /\ AssetName(tasks[k].obj) = k
        /\ tasks[k].result.kind = "AlreadyExists"

\* C7: a task makes at most one existence check and at most one
\* create/import call; once it is past the check it has made exactly one
\* check, and a create/import call is made only after the check.
C7_OneCheckAtMostOneCreate ==
    \A k \in Tasks :
        /\ tasks[k].checks <= 1
        /\ tasks[k].posts <= 1
        /\ tasks[k].pc \in {"checked", "done"} => tasks[k].checks = 1
        /\ tasks[k].pc \in {"queued", "built"} => tasks[k].checks = 0
        /\ tasks[k].posts = 1 => (tasks[k].checks = 1 /\ tasks[k].pc = "done")

\* C7 witness: a task whose create/import call failed has ended with one
\* check and one call.
C7_Witness ==
    \E k \in Tasks :
        /\ tasks[k].pc = "done"
        /\ tasks[k].result.kind = "Failed"
        /\ tasks[k].checks = 1
        /\ tasks[k].posts = 1

\* C8: a task that submitted its payload returns Registered on a success
\* answer, and on any other answer or exception returns Failed with its
\* asset path and the text the service gave.
C8_SubmissionOutcomeCarriesReason ==
    \A k \in Tasks :
        (tasks[k].pc = "done" /\ tasks[k].posts = 1) =>
            IF tasks[k].answer = "ok"
            THEN tasks[k].result = Outcome("Registered", tasks[k].asset, "")
            ELSE tasks[k].result = Outcome("Failed", tasks[k].asset, tasks[k].answer)

(***************************************************************************)
(* The worker bound of a batch (SpecPool).                                 *)
(***************************************************************************)
\* C5 as stated: in every batch the tasks in flight number at most W, W
\* being 10 when the caller gives no worker count and the caller's count
\* otherwise.
C5_InFlightAtMostW ==
    pool.inflight <= (IF pool.arg = NoArg THEN 10 ELSE pool.arg)

\* C5 amended: in validate_cog_batch the tasks in flight number at most the
\* caller's max_workers, 10 when none is given; in register, which takes no
\* worker count, they number at most the default size of the executor,
\* min(32, cpu + 4) from Python 3.8 on and 5 * cpu before.
C5_InFlightAtMostExecutorSize ==
    /\ pool.fn = "validate_cog_batch" =>
          pool.inflight <= (IF pool.arg = NoArg THEN 10 ELSE pool.arg)
    /\ pool.fn = "register" =>
          pool.inflight <= (IF pool.py38
                            THEN (IF pool.cpu_count + 4 < 32
                                  THEN pool.cpu_count + 4 ELSE 32)
                            ELSE 5 * pool.cpu_count)

\* C5 witness: validate_cog_batch with one worker and 5 files, one file in
\* flight, others done and others waiting.
C5_Witness ==
    /\ pool.fn = "validate_cog_batch"
    /\ pool.arg = 1
    /\ pool.queued + pool.inflight + pool.finished = 5
    /\ pool.inflight = 1
    /\ pool.finished >= 1
    /\ pool.queued >= 1

(***************************************************************************)
(* The payload of one manifest registration task (SpecTask).               *)
(***************************************************************************)
InFlight(t) == use_manifest /\ t.pc \in {"built", "checked"}
\* the band count the task works with: the count read from the file, 1 when
\* none was read
DetectedCount(t) == IF t.read.kind = "cannot_open" THEN 1 ELSE t.read.count
SynthIds ==
    << <<"b", "1">>, <<"b", "2">>, <<"b", "3">>, <<"b", "4">>, <<"b", "5">>,
       <<"b", "6">>, <<"b", "7">>, <<"b", "8">>, <<"b", "9">> >>
BandIdsOf(t) == [i \in 1..Len(t.bands) |-> t.bands[i].id]
WellIndexed(t) ==
    \A i \in 1..Len(t.bands) :
        t.bands[i].tilesetBandIndex = i - 1 /\ t.bands[i].tilesetId = "0"

\* C9: with band count N, the payload of a manifest task has exactly N band
\* descriptors, descriptor i with band index i and tileset id "0"; the ids
\* are the caller's names in order when exactly N names were given, and
\* b1..bN otherwise.
C9_BandsAllOrNothing ==
    \A k \in Tasks :
        InFlight(tasks[k]) =>
            LET t == tasks[k]
                N == DetectedCount(t)
            IN  /\ Len(t.bands) = N
                /\ WellIndexed(t)
                /\ BandIdsOf(t) =
                      IF Len(band_names) = N THEN band_names
                      ELSE SubSeq(SynthIds, 1, N)

\* C9 witness: two bands detected, one name given: the ids are b1, b2.
C9_Witness ==
    \E k \in Tasks :
        /\ InFlight(tasks[k])
        /\ tasks[k].read = [kind |-> "ok", count |-> 2]
        /\ Len(band_names) = 1
        /\ BandIdsOf(tasks[k]) = << <<"b", "1">>, <<"b", "2">> >>

ReadFailed(t) == t.read.kind \in {"cannot_open", "read_error"}

\* C10 as stated: when the read of the file fails, the payload of the
\* manifest task has the single band b1.
C10_FailedReadGivesB1 ==
    \A k \in Tasks :
        (InFlight(tasks[k]) /\ ReadFailed(tasks[k])) =>
            tasks[k].bands = <<BandDescriptor(<<"b", "1">>, 0)>>

\* C10 amended: when the read of the file fails, the manifest task still
\* builds its payload and goes on to the existence check and the submission.
\* When the file cannot be opened the payload has one band, named b1 unless
\* the caller gave exactly one band name, which is then its id; when the
\* file opens and a later read fails the payload keeps the detected band
\* count.  No task ends without its existence check.
C10_FailedReadStillRegisters ==
    \A k \in Tasks :
        LET t == tasks[k] IN
        /\ (InFlight(t) /\ t.read.kind = "cannot_open") =>
              /\ Len(t.bands) = 1
              /\ WellIndexed(t)
              /\ t.bands[1].id =
                    IF Len(band_names) = 1 THEN band_names[1] ELSE <<"b", "1">>
        /\ (InFlight(t) /\ t.read.kind = "read_error") =>
              Len(t.bands) = t.read.count
        /\ (InFlight(t) /\ ReadFailed(t) /\ t.pc = "built") =>
              (t.checks = 0 /\ ENABLED TaskCheck(k))
        /\ (InFlight(t) /\ ReadFailed(t) /\ t.pc = "checked") =>
              (t.checks = 1 /\ ENABLED TaskSubmit(k))
        /\ (use_manifest /\ t.pc = "done") => t.checks = 1

\* C10 witness: the file could not be opened, the payload has the band b1
\* and the task is past its existence check, about to submit.
C10_Witness ==
    \E k \in Tasks :
        /\ InFlight(tasks[k])
        /\ tasks[k].read.kind = "cannot_open"
        /\ tasks[k].pc = "checked"
        /\ tasks[k].bands = <<BandDescriptor(<<"b", "1">>, 0)>>

(***************************************************************************)
(* Names, keys and the object handed to a task (SpecList).                 *)
(***************************************************************************)
\* C11: within the collection, two listed source objects with distinct
\* names have distinct asset paths.
C11_AssetPathsCollisionFree ==
    \A i \in 1..Len(ptif), j \in 1..Len(ptif) :
        ptif[i] # ptif[j] =>
            AssetIdImg(CollectionPath, ptif[i]) # AssetIdImg(CollectionPath, ptif[j])

\* C16: for every object list_tif returns, the key the differ compares is
\* the last segment of the asset path the task creates for the object.
C16_DifferKeyIsAssetName ==
    \A i \in 1..Len(ptif) :
        GcsKey(ptif[i]) = Basename(AssetIdImg(CollectionPath, ptif[i]))

\* C17: the object handed to the task of a key has that key as its base
\* name, so the tasks of distinct keys have distinct objects.
C17_TaskObjectHasItsKey ==
    /\ \A k \in Tasks : GcsKey(tasks[k].obj) = k
    /\ \A k \in Tasks, j \in Tasks : k # j => tasks[k].obj # tasks[j].obj

(***************************************************************************)
(* The collection, the interrupt and the source URI.                       *)
(***************************************************************************)
\* C12: a collection that is there when register looks it up gets no create
\* call; one that is not there and could be made was made as an image
\* collection; and the listings and the difference are only taken while the
\* collection exists.
C12_CollectionEnsuredBeforeDifference ==
    /\ (coll.step # "none" /\ coll.existed) => coll.creates = 0
    /\ (coll.step \in {"found", "created"} /\ ~coll.existed) =>
          /\ coll.step = "created"
          /\ coll.creates >= 1
          /\ coll.type \in {ASSET_TYPE_IMAGE_COLL_CLOUD, ASSET_TYPE_IMAGE_COLL}
    /\ (rpc = "listing" \/ ptif # <<>> \/ tasks # <<>>) => coll_exists

\* C13: once the interrupt has reached register, no task that had not
\* started starts.
C13_NoTaskStartsAfterInterrupt ==
    [][rpc = "cancelling" =>
          \A k \in DOMAIN tasks :
              tasks[k].pc = "queued" => tasks'[k].pc = "queued"]_vars

\* the object an address names, `head` being the part before the object key
ObjectOf(address, head) == SubSeq(address, Len(head) + 1, Len(address))

\* C14: the source URI of a task's payload is gs://<bucket>/<key>, <key>
\* being the full name list_tif returned for the object, with and without
\* a prefix; it names the object validate_cog opens.
C14_UriNamesListedObject ==
    \A k \in Tasks :
        tasks[k].pc # "queued" =>
            /\ tasks[k].uri = GsScheme \o BucketName \o Slash \o tasks[k].obj
            /\ ObjectOf(tasks[k].uri, GsScheme \o BucketName \o Slash)
                  = ObjectOf(CogUrl(BucketName, tasks[k].obj),
                             StorageHost \o BucketName \o Slash)

(***************************************************************************)
(* The tally of validate_cog_batch (SpecValidate).                         *)
(***************************************************************************)
ValidRecords == {j \in 1..Len(vbatch.results) : vbatch.results[j].is_valid_cog}
RecordsOf(name) == {j \in 1..Len(vbatch.results) : vbatch.results[j].file = name}

\* C15: when validate_cog_batch returns the results of a listing of N files,
\* whatever the number of workers and the order of completion, the list has
\* N records, one for each listed file, the progress bar was advanced N
\* times, valid_count + invalid_count = N, and valid_count is the number of
\* records with is_valid_cog true; while it runs, records, progress and
\* counts stand at the number of futures collected.
C15_TallyIsComplete ==
    LET N == Len(vbatch.tif_files)
    IN  /\ Len(vbatch.results) = Cardinality(FuturesAt("collected"))
        /\ vbatch.pbar = Cardinality(FuturesAt("collected"))
        /\ vbatch.valid_count + vbatch.invalid_count = vbatch.pbar
        /\ vbatch.valid_count = Cardinality(ValidRecords)
        /\ vbatch.pc = "returned results" =>
              /\ N > 0
              /\ Len(vbatch.results) = N
              /\ vbatch.pbar = N
              /\ vbatch.valid_count + vbatch.invalid_count = N
              /\ \A i \in 1..N : Cardinality(RecordsOf(vbatch.tif_files[i])) = 1

\* C15 witness: two files came back in the reverse of the listing's order,
\* one valid and one not, and the results were returned.
C15_Witness ==
    /\ vbatch.pc = "returned results"
    /\ Len(vbatch.tif_files) = 2
    /\ vbatch.results[1].file = vbatch.tif_files[2]
    /\ vbatch.valid_count = 1
    /\ vbatch.invalid_count = 1

=============================================================================
